---- MODULE Spec2Model ----
(***************************************************************************)
(* Model of the ffmpeg-api-service job orchestration (server.js), of the   *)
(* multi-clip assembly pipeline (lib/ffmpeg.js, lib/storage.js) and of the *)
(* crossfade timeline arithmetic (buildXfadeCommand,                       *)
(* calculateTotalDuration).                                                *)
(*                                                                         *)
(* Every `await` of the source is a suspension point and therefore the end *)
(* of one action: an action runs the synchronous code between two awaits.  *)
(* The outcome of an awaited I/O call (resolve / reject) is chosen by the  *)
(* environment when the action that resumes after it fires.                *)
(*                                                                         *)
(* Times are integers in tenths of a millisecond, written Ms(n) for n ms   *)
(* (8 s = Ms(8000)).  The timestamps of a job record are kept as ages,     *)
(* counted in periods of the job sweep.                                    *)
(*                                                                         *)
(* Specifications: Spec (requests and their pipelines), LiveSpec (the same *)
(* under the scheduling of the event loop), RegistrySpec (the registry     *)
(* under the job sweep), QuerySpec (RegistrySpec with status queries),     *)
(* NamingSpec (names of working directories and output files),             *)
(* TimelineSpec (the timeline and the filter graph of one assembly),       *)
(* DownloadSpec (the steps of downloadVideo), ProbeSpec (the loop of       *)
(* assembleVideos over the clips) and AutoEditSpec (silencesToSegments).   *)
(***************************************************************************)
EXTENDS Integers, Sequences, FiniteSets, TLC

\* ---------------------------------------------------------------- bounds
MaxJobs == 2        \* requests (tasks) that may be submitted
MaxClips == 2       \* clips of one assembly request in the job model
MaxFiles == 3       \* clips of one timeline in the timeline model

MaxLiveJobs == 1    \* requests in the specifications with fairness
MaxMs == 2          \* milliseconds that pass in the naming model
MaxCap == 2         \* largest size cap of a download, in bytes
MaxChunk == 2       \* largest chunk of a response stream, in bytes
MaxSilences == 2    \* silences of one detection in the auto-edit model
MaxTicks == 5       \* length of a file in the auto-edit model, in 50 ms

\* Minutes between two runs of the job sweep (10 * 60 * 1000 ms,
\* server.js:1813) and minutes a record is retained (60 * 60 * 1000 ms,
\* server.js:1805)
SweepIntervalMin == 10
RetentionMin == 60

\* transition?.duration || 1 (seconds), server.js:155, in ms
DefaultTransitionMs == 1000

\* duration of a clip that could not be probed, 8 s (ffmpeg.js:117, 120,
\* 52), in ms
DefaultDurationMs == 8000

\* parseInt(process.env.MAX_VIDEOS) || 20, server.js:127
MaxVideos == 20

JobIds == 1..MaxJobs

\* ------------------------------------------------------------- variables
VARIABLES
  jobs,        \* server.js:16  the registry Map: jobId -> record
  task,        \* per request: which endpoint, with a callbackUrl or not
  pc,          \* per request: the await the task is suspended at
  workDir,     \* per request: "none" | "present" | "removed"
  todo,        \* per request: clips the task will still download
  partial,     \* per request: a partially written input file is in workDir
  execRuns,    \* per request: times the transcode subprocess was started
  saved,       \* per request: output file was saved to the output directory
  thrown,      \* per request: the error travelling through a catch / finally
  callbacks,   \* per request: sequence of callback attempts (axios.post)
  response,    \* per request: HTTP response sent to the caller
  hist,        \* per request: what happened so far (a download rejected,
               \* the transcode resolved, an fs.rm rejected)
  files,              \* timeline model: clip durations (ms), localFiles
  transitionDuration, \* timeline model: transition duration (ms)
  videoOffsets,       \* timeline model: offsets computed by buildXfadeCommand
  totalDuration,      \* timeline model: totalDuration of buildXfadeCommand
  reported,           \* timeline model: result of calculateTotalDuration
  formula,            \* timeline model: revision of buildXfadeCommand that ran
  tl,                 \* timeline model: position of the computation
  requested,          \* timeline model: transition.duration of the request
  hasAudio,           \* timeline model: per clip, result of hasAudioStream
  command,            \* timeline model: the filter graph of the command
  msNow,       \* naming model: Date.now(), in ms
  dirName,     \* naming model, per job: name of its working directory
  outName,     \* naming model, per job: name of its output file
  dirs,        \* naming model: the working directories that exist
  outFiles,    \* naming model: output directory, file name -> job that wrote
  reply,       \* response of the status query handled by the last step
  dl,          \* download model: the call of downloadVideo in progress
  dlLog,       \* download model: <<condition, error>> of failed downloads
  probe,       \* probe model: the loop of assembleVideos over the clips
  autoEdit     \* auto-edit model: a call of silencesToSegments

jobVars == <<jobs, task, pc, workDir, todo, partial, execRuns, saved,
             thrown, callbacks, response, hist>>
tlVars == <<files, transitionDuration, videoOffsets, totalDuration, reported,
            formula, tl, requested, hasAudio, command>>
nameVars == <<msNow, dirName, outName, dirs, outFiles>>
dlVars == <<dl, dlLog>>
vars == <<jobs, task, pc, workDir, todo, partial, execRuns, saved,
          thrown, callbacks, response, hist,
          files, transitionDuration, videoOffsets, totalDuration, reported,
          formula, tl, requested, hasAudio, command,
          msNow, dirName, outName, dirs, outFiles, reply, dl, dlLog,
          probe, autoEdit>>

\* ------------------------------------------------- JavaScript primitives
\* { ...old, ...new }: object spread, the fields of new win
Spread(old, new) ==
  [k \in (DOMAIN old) \cup (DOMAIN new) |->
     IF k \in DOMAIN new THEN new[k] ELSE old[k]]

\* Map.prototype.set
MapSet(m, k, v) == [x \in (DOMAIN m) \cup {k} |-> IF x = k THEN v ELSE m[x]]

\* jobs.get(jobId) inside an object spread: undefined spreads to no field
JobsGet(j) == IF j \in DOMAIN jobs THEN jobs[j] ELSE <<>>

\* Math.max
Max(a, b) == IF a >= b THEN a ELSE b

\* n milliseconds in the unit of time of the model, 0.1 ms
Ms(n) == n * 10

\* Math.round(x * 100) / 100 on a time: nearest 10 ms, halves go up
Round2(x) == ((x + Ms(5)) \div Ms(10)) * Ms(10)

\* Math.round(x * 1000) on a time: whole milliseconds, halves go up
RoundMs(x) == (x + 5) \div 10

\* A timestamp (new Date().toISOString()) is kept as its age: the number of
\* runs of the job sweep since it was taken, 0 when taken.
Stamps == {"createdAt", "completedAt", "failedAt"}

NoTask == [kind |-> "none", async |-> FALSE, range |-> "ok"]

\* --------------------------------------------------------- environment
\* Outcomes of downloadVideo (lib/storage.js:29-99).  "ok" resolves, every
\* other outcome rejects.
DownloadOutcomes ==
  {"ok", "notFound", "accessDenied", "timeout", "tooLargeHeader",
   "tooLargeStream", "streamError", "writeError", "network"}

\* The outcomes the job model draws from: success, the four failure
\* conditions of the clip source (the size cap in the form that leaves a
\* partial file behind).
ClipOutcomes == {"ok", "notFound", "accessDenied", "timeout", "tooLargeStream"}

\* DownloadError without the branches on the HTTP status
DownloadErrorNoStatus(out) ==
  CASE out = "timeout"        -> "Download timeout"
    [] out = "tooLargeHeader" -> "File too large"
    [] out = "tooLargeStream" -> "Download exceeded limit"
    [] out = "streamError"    -> "Download stream error"
    [] out = "writeError"     -> "Failed to write file"
    [] OTHER                  -> "Failed to download video"

\* The message of the Error downloadVideo rejects with (storage.js:49,62,75,
\* 80,87,90,93,95), named by its kind.
DownloadError(out) ==
  CASE out = "timeout"        -> "Download timeout"
    [] out = "notFound"       -> "Video not found"
    [] out = "accessDenied"   -> "Access denied to video"
    [] out = "tooLargeHeader" -> "File too large"
    [] out = "tooLargeStream" -> "Download exceeded limit"
    [] out = "streamError"    -> "Download stream error"
    [] out = "writeError"     -> "Failed to write file"
    [] OTHER                  -> "Failed to download video"

\* Does a rejected download leave a partially written file at localPath?
\* The write stream is created at storage.js:53, after the request and the
\* content-length check; only the writer's own error unlinks it (line 74).
LeavesPartial(out) == out \in {"tooLargeStream", "streamError"}

\* The outcome of any other awaited call: it resolves or it rejects.
Outcomes == {"ok", "fail"}

\* axios.post(callbackUrl, { jobId, status, ... }): a callback attempt, named
\* by the status it carries
Attempt(status) == status

\* the result of a finished pipeline as stored on the job / sent back
ResultOf(j) == [videoUrl |-> j, filename |-> j, duration |-> j]

\* ------------------------------------------------------------------ Init
JobInit ==
  /\ jobs = <<>>
  /\ task = [j \in JobIds |-> NoTask]
  /\ pc = [j \in JobIds |-> "idle"]
  /\ workDir = [j \in JobIds |-> "none"]
  /\ todo = [j \in JobIds |-> 0]
  /\ partial = [j \in JobIds |-> FALSE]
  /\ execRuns = [j \in JobIds |-> 0]
  /\ saved = [j \in JobIds |-> FALSE]
  /\ thrown = [j \in JobIds |-> "none"]
  /\ callbacks = [j \in JobIds |-> <<>>]
  /\ response = [j \in JobIds |-> "none"]
  /\ hist = [j \in JobIds |->
              [dlFailed |-> FALSE, execOk |-> FALSE, rmFailed |-> FALSE]]

\* uuidv4() / the next request: ids are handed out in order
NextId == Cardinality({k \in JobIds : task[k] # NoTask}) + 1

\* RmWorkDir with the removal left out: the call settles, nothing is deleted
RmWorkDirSkipped(j, out) ==
  /\ hist' = [hist EXCEPT ![j].rmFailed = @ \/ out # "ok"]
  /\ UNCHANGED <<workDir, partial>>

\* fs.rm(workDir, { recursive: true, force: true }): on success the directory
\* and everything in it is gone; force makes a missing directory a success.
RmWorkDir(j, out) ==
  /\ hist' = [hist EXCEPT ![j].rmFailed = @ \/ out # "ok"]
  /\ IF out = "ok" /\ workDir[j] = "present"
       THEN /\ workDir' = [workDir EXCEPT ![j] = "removed"]
            /\ partial' = [partial EXCEPT ![j] = FALSE]
       ELSE UNCHANGED <<workDir, partial>>

\* ------------------------------------------- processAsync (server.js:216)
\* server.js:228-246 (async) and server.js:189-203 (sync): assembleVideos
\* resolved.
AssembleResolved(j) ==
  IF task[j].async
    THEN /\ jobs' = MapSet(jobs, j,
                      [status |-> "completed", progress |-> 100,
                       result |-> ResultOf(j), completedAt |-> 0])
         /\ callbacks' = [callbacks EXCEPT ![j] =
                            Append(@, Attempt("completed"))]
         /\ pc' = [pc EXCEPT ![j] = "cbCompleted"]
         /\ UNCHANGED response
    ELSE /\ response' = [response EXCEPT ![j] = "ok"]
         /\ pc' = [pc EXCEPT ![j] = "done"]
         /\ UNCHANGED <<jobs, callbacks>>

\* server.js:248-268 (async) and server.js:205-211 (sync): assembleVideos
\* rejected with err.
AssembleRejected(j, err) ==
  IF task[j].async
    THEN /\ jobs' = MapSet(jobs, j,
                      [status |-> "failed", error |-> err, failedAt |-> 0])
         /\ callbacks' = [callbacks EXCEPT ![j] = Append(@, Attempt("failed"))]
         /\ pc' = [pc EXCEPT ![j] = "cbFailed"]
         /\ UNCHANGED response
    ELSE /\ response' = [response EXCEPT ![j] = "error500"]
         /\ pc' = [pc EXCEPT ![j] = "done"]
         /\ UNCHANGED <<jobs, callbacks>>

\* Request bodies of POST /api/assemble as the validation sees them: videos
\* is an array or not, holds n clips, every clip has a string url that
\* new URL() accepts or not.
AssembleRequests ==
  [isArray : BOOLEAN, n : (0..MaxClips) \cup {MaxVideos + 1},
   urlsOk : BOOLEAN]

\* Request bodies of POST /api/trim as the validation sees them
TrimRequests == [urlOk : BOOLEAN, numeric : BOOLEAN]

\* start and end of a trim request, in seconds
Starts == {0, 2}
Ends == {1, 2}

\* The request validation of POST /api/assemble, server.js:113-150: the error
\* of the 400 answer, or "ok"
ValidateAssemble(r) ==
  IF ~r.isArray THEN "Invalid request: videos array is required"
  ELSE IF r.n < 2 THEN "At least 2 videos are required for assembly"
  ELSE IF r.n > MaxVideos THEN "Maximum videos allowed"
  ELSE IF ~r.urlsOk THEN "Invalid video URL"
  ELSE "ok"

\* The request validation of POST /api/trim, server.js:445-464: url is a
\* string that new URL() accepts, start and end are of type number.  The
\* handler does not compare end with start.
ValidateTrim(r) ==
  IF ~r.urlOk THEN "Invalid request: url is required"
  ELSE IF ~r.numeric
    THEN "Invalid request: start and end times are required (in seconds)"
  ELSE "ok"

\* trimVideo's own check of its bounds, ffmpeg.js:417-427 (start || 0 is
\* start on a number)
TrimRange(start, end) ==
  IF end <= start THEN "End time must be greater than start time" ELSE "ok"

\* A request that fails the validation of its handler is answered 400 and
\* nothing else happens (server.js:114-150, 446-464).
Reject(j) ==
  /\ j = NextId
  /\ task' = [task EXCEPT ![j] = [kind |-> "rejected", async |-> FALSE,
                                  range |-> "ok"]]
  /\ response' = [response EXCEPT ![j] = "error400"]
  /\ pc' = [pc EXCEPT ![j] = "done"]
  /\ UNCHANGED <<jobs, workDir, todo, partial, execRuns, saved, thrown,
                 callbacks, hist>>

RejectAssemble(j) ==
  /\ \E r \in AssembleRequests : ValidateAssemble(r) # "ok"
  /\ Reject(j)

RejectTrim(j) ==
  /\ \E r \in TrimRequests : ValidateTrim(r) # "ok"
  /\ Reject(j)

\* POST /api/assemble, server.js:107-187, for a request that passes the
\* validation: with a callbackUrl the job is registered and processAsync runs
\* up to its first await (fs.mkdir in assembleVideos), then the request is
\* acknowledged; without one the handler itself awaits assembleVideos.
PostAssemble(j, async, n) ==
  /\ j = NextId
  /\ ValidateAssemble([isArray |-> TRUE, n |-> n, urlsOk |-> TRUE]) = "ok"
  /\ task' = [task EXCEPT ![j] = [kind |-> "assemble", async |-> async,
                                  range |-> "ok"]]
  /\ todo' = [todo EXCEPT ![j] = n]
  /\ pc' = [pc EXCEPT ![j] = "mkdir"]
  /\ IF async
       THEN /\ jobs' = MapSet(jobs, j,
                         Spread([status |-> "processing", progress |-> 0,
                                 createdAt |-> 0],
                                [status |-> "processing", progress |-> 10]))
            /\ response' = [response EXCEPT ![j] = "accepted"]
       ELSE UNCHANGED <<jobs, response>>
  /\ UNCHANGED <<workDir, partial, execRuns, saved, thrown, callbacks, hist>>

\* --------------------------------------- assembleVideos (lib/ffmpeg.js:16)
\* ffmpeg.js:20  await fs.mkdir(workDir): outside the try block
AsmMkdir(j) ==
  /\ task[j].kind = "assemble" /\ pc[j] = "mkdir"
  /\ \E out \in Outcomes :
       IF out = "ok"
         THEN /\ workDir' = [workDir EXCEPT ![j] = "present"]
              /\ pc' = [pc EXCEPT ![j] = "download"]
              /\ UNCHANGED <<jobs, callbacks, response>>
         ELSE /\ AssembleRejected(j, "mkdir failed")
              /\ UNCHANGED workDir
  /\ UNCHANGED <<task, todo, partial, execRuns, saved, thrown, hist>>

\* ffmpeg.js:35  await downloadVideo(videos[i].url, localPath); a rejection
\* leaves the loop for the catch block of line 99
AsmDownloadRetry(j) ==
  /\ task[j].kind = "assemble" /\ pc[j] = "download"
  /\ \E out \in ClipOutcomes :
       IF out = "ok"
         THEN /\ todo' = [todo EXCEPT ![j] = @ - 1]
              /\ pc' = [pc EXCEPT ![j] = "probe"]
              /\ UNCHANGED <<partial, thrown, hist>>
         ELSE /\ partial' = [partial EXCEPT ![j] = LeavesPartial(out)]
              /\ thrown' = [thrown EXCEPT ![j] = DownloadError(out)]
              /\ pc' = [pc EXCEPT ![j] = "download"]
              /\ hist' = [hist EXCEPT ![j].dlFailed = TRUE]
              /\ UNCHANGED todo
  /\ UNCHANGED <<jobs, task, workDir, execRuns, saved, callbacks, response>>

AsmDownload(j) ==
  /\ task[j].kind = "assemble" /\ pc[j] = "download"
  /\ \E out \in ClipOutcomes :
       IF out = "ok"
         THEN /\ todo' = [todo EXCEPT ![j] = @ - 1]
              /\ pc' = [pc EXCEPT ![j] = "probe"]
              /\ UNCHANGED <<partial, thrown, hist>>
         ELSE /\ partial' = [partial EXCEPT ![j] = LeavesPartial(out)]
              /\ thrown' = [thrown EXCEPT ![j] = DownloadError(out)]
              /\ pc' = [pc EXCEPT ![j] = "rmErr"]
              /\ hist' = [hist EXCEPT ![j].dlFailed = TRUE]
              /\ todo' = [todo EXCEPT ![j] = 0]
  /\ UNCHANGED <<jobs, task, workDir, execRuns, saved, callbacks, response>>

\* ffmpeg.js:38-57  getVideoDuration / hasAudioStream never reject; after the
\* last clip the command is built (ffmpeg.js:62-70) and execAsync is started
\* (ffmpeg.js:77).
AsmProbe(j) ==
  /\ task[j].kind = "assemble" /\ pc[j] = "probe"
  /\ IF todo[j] > 0
       THEN /\ pc' = [pc EXCEPT ![j] = "download"]
            /\ UNCHANGED execRuns
       ELSE /\ pc' = [pc EXCEPT ![j] = "exec"]
            /\ execRuns' = [execRuns EXCEPT ![j] = @ + 1]
  /\ UNCHANGED <<jobs, task, workDir, todo, partial, saved, thrown,
                 callbacks, response, hist>>

\* ffmpeg.js:77  await execAsync(ffmpegCmd, { timeout, maxBuffer })
AsmExec(j) ==
  /\ task[j].kind = "assemble" /\ pc[j] = "exec"
  /\ \E out \in Outcomes :
       IF out = "ok"
         THEN /\ pc' = [pc EXCEPT ![j] = "save"]
              /\ hist' = [hist EXCEPT ![j].execOk = TRUE]
              /\ UNCHANGED thrown
         ELSE /\ thrown' = [thrown EXCEPT ![j] = "transcode failed"]
              /\ pc' = [pc EXCEPT ![j] = "rmErr"]
              /\ UNCHANGED hist
  /\ UNCHANGED <<jobs, task, workDir, todo, partial, execRuns, saved,
                 callbacks, response>>

\* ffmpeg.js:83  await saveVideo(outputPath, fileName), then
\* calculateTotalDuration (86) and the call of fs.rm (90)
AsmSave(j) ==
  /\ task[j].kind = "assemble" /\ pc[j] = "save"
  /\ \E out \in Outcomes :
       IF out = "ok"
         THEN /\ saved' = [saved EXCEPT ![j] = TRUE]
              /\ pc' = [pc EXCEPT ![j] = "rm"]
              /\ UNCHANGED thrown
         ELSE /\ thrown' = [thrown EXCEPT ![j] = "save failed"]
              /\ pc' = [pc EXCEPT ![j] = "rmErr"]
              /\ UNCHANGED saved
  /\ UNCHANGED <<jobs, task, workDir, todo, partial, execRuns,
                 callbacks, response, hist>>

\* ffmpeg.js:90  await fs.rm(workDir, ...) on the success path: no .catch, so
\* a rejection enters the catch block of line 99.
AsmRm(j) ==
  /\ task[j].kind = "assemble" /\ pc[j] = "rm"
  /\ \E out \in Outcomes :
       /\ RmWorkDir(j, out)
       /\ IF out = "ok"
            THEN /\ AssembleResolved(j)
                 /\ UNCHANGED thrown
            ELSE /\ thrown' = [thrown EXCEPT ![j] = "cleanup failed"]
                 /\ pc' = [pc EXCEPT ![j] = "rmErr"]
                 /\ UNCHANGED <<jobs, callbacks, response>>
  /\ UNCHANGED <<task, todo, execRuns, saved>>

\* ffmpeg.js:99-104  catch: await fs.rm(workDir, ...).catch(() => {}), then
\* throw error
AsmRmErr(j) ==
  /\ task[j].kind = "assemble" /\ pc[j] = "rmErr"
  /\ \E out \in Outcomes :
       /\ RmWorkDir(j, out)
       /\ AssembleRejected(j, thrown[j])
  /\ thrown' = [thrown EXCEPT ![j] = "none"]
  /\ UNCHANGED <<task, todo, execRuns, saved>>

\* server.js:239  await axios.post(callbackUrl, { status: 'completed' })
\* inside the try block of processAsync: a rejection enters the catch of
\* line 248, which stores `failed` and posts the failure callback.
AsyncCbCompleted(j) ==
  /\ task[j].kind = "assemble" /\ pc[j] = "cbCompleted"
  /\ \E out \in Outcomes :
       IF out = "ok"
         THEN /\ pc' = [pc EXCEPT ![j] = "done"]
              /\ UNCHANGED <<jobs, callbacks>>
         ELSE /\ jobs' = MapSet(jobs, j,
                           [status |-> "failed", error |-> "callback failed",
                            failedAt |-> 0])
              /\ callbacks' = [callbacks EXCEPT ![j] =
                                 Append(@, Attempt("failed"))]
              /\ pc' = [pc EXCEPT ![j] = "cbFailed"]
  /\ UNCHANGED <<task, workDir, todo, partial, execRuns, saved, thrown,
                 response, hist>>

\* server.js:259-267  await axios.post(callbackUrl, { status: 'failed' }) in
\* its own try / catch
AsyncCbFailed(j) ==
  /\ task[j].kind = "assemble" /\ pc[j] = "cbFailed"
  /\ \E out \in Outcomes : pc' = [pc EXCEPT ![j] = "done"]
  /\ UNCHANGED <<jobs, task, workDir, todo, partial, execRuns, saved,
                 thrown, callbacks, response, hist>>

\* ------------------------------------ POST /api/trim, processTrimAsync
\* server.js:1351-1370 (async): the catch block of processTrimAsync stores
\* `failed` and posts the failure callback; the finally block runs after it.
\* server.js:517 (sync): the finally block runs first, the outer catch
\* (521-528) answers after it.
TrimFailed(j, err) ==
  IF task[j].async
    THEN /\ jobs' = MapSet(jobs, j,
                      [status |-> "failed", error |-> err, failedAt |-> 0])
         /\ callbacks' = [callbacks EXCEPT ![j] = Append(@, Attempt("failed"))]
         /\ pc' = [pc EXCEPT ![j] = "cbFailed"]
         /\ UNCHANGED <<thrown, response>>
    ELSE /\ thrown' = [thrown EXCEPT ![j] = err]
         /\ pc' = [pc EXCEPT ![j] = "rmFinally"]
         /\ UNCHANGED <<jobs, callbacks, response>>

\* POST /api/trim, server.js:439-491, for a request that passes the
\* validation: with a callbackUrl the job is registered and processTrimAsync
\* runs up to its first await (fs.mkdir, line 1314), then the request is
\* acknowledged; without one the handler awaits fs.mkdir itself (line 491).
PostTrim(j, async, start, end) ==
  /\ j = NextId
  /\ ValidateTrim([urlOk |-> TRUE, numeric |-> TRUE]) = "ok"
  /\ task' = [task EXCEPT ![j] = [kind |-> "trim", async |-> async,
                                  range |-> TrimRange(start, end)]]
  /\ todo' = [todo EXCEPT ![j] = 1]
  /\ pc' = [pc EXCEPT ![j] = "mkdir"]
  /\ IF async
       THEN /\ jobs' = MapSet(jobs, j,
                         [status |-> "processing", progress |-> 0,
                          createdAt |-> 0])
            /\ response' = [response EXCEPT ![j] = "accepted"]
       ELSE UNCHANGED <<jobs, response>>
  /\ UNCHANGED <<workDir, partial, execRuns, saved, thrown, callbacks, hist>>

\* server.js:1314-1318 (async, inside the try) and 491-495 (sync, outside the
\* inner try: a rejection goes straight to the outer catch)
TrimMkdir(j) ==
  /\ task[j].kind = "trim" /\ pc[j] = "mkdir"
  /\ \E out \in Outcomes :
       IF out = "ok"
         THEN /\ workDir' = [workDir EXCEPT ![j] = "present"]
              /\ pc' = [pc EXCEPT ![j] = "download"]
              /\ IF task[j].async
                   THEN jobs' = MapSet(jobs, j,
                                  Spread(JobsGet(j), [status |-> "processing",
                                                   progress |-> 20]))
                   ELSE UNCHANGED jobs
              /\ UNCHANGED <<thrown, callbacks, response>>
         ELSE /\ IF task[j].async
                   THEN TrimFailed(j, "mkdir failed")
                   ELSE /\ response' = [response EXCEPT ![j] = "error500"]
                        /\ pc' = [pc EXCEPT ![j] = "done"]
                        /\ UNCHANGED <<jobs, thrown, callbacks>>
              /\ UNCHANGED workDir
  /\ UNCHANGED <<task, todo, partial, execRuns, saved, hist>>

\* server.js:1318-1322 / 495-498  await downloadVideo(url, inputPath); then
\* trimVideo checks its bounds and throws, or starts the subprocess
\* (ffmpeg.js:416-450)
TrimDownload(j) ==
  /\ task[j].kind = "trim" /\ pc[j] = "download"
  /\ \E out \in ClipOutcomes :
       IF out = "ok" /\ task[j].range = "ok"
         THEN /\ todo' = [todo EXCEPT ![j] = @ - 1]
              /\ execRuns' = [execRuns EXCEPT ![j] = @ + 1]
              /\ pc' = [pc EXCEPT ![j] = "exec"]
              /\ IF task[j].async
                   THEN jobs' = MapSet(jobs, j,
                                  Spread(JobsGet(j), [progress |-> 40]))
                   ELSE UNCHANGED jobs
              /\ UNCHANGED <<partial, thrown, callbacks, response, hist>>
         ELSE IF out = "ok"
         THEN /\ TrimFailed(j, task[j].range)
              /\ todo' = [todo EXCEPT ![j] = 0]
              /\ UNCHANGED <<partial, execRuns, hist>>
         ELSE /\ partial' = [partial EXCEPT ![j] = LeavesPartial(out)]
              /\ hist' = [hist EXCEPT ![j].dlFailed = TRUE]
              /\ TrimFailed(j, DownloadError(out))
              /\ todo' = [todo EXCEPT ![j] = 0]
              /\ UNCHANGED execRuns
  /\ UNCHANGED <<task, workDir, saved>>

\* TrimExec with the progress after the transcode set to 10
TrimExecProgressBack(j) ==
  /\ task[j].kind = "trim" /\ pc[j] = "exec"
  /\ \E out \in Outcomes :
       IF out = "ok"
         THEN /\ pc' = [pc EXCEPT ![j] = "save"]
              /\ IF task[j].async
                   THEN jobs' = MapSet(jobs, j,
                                  Spread(JobsGet(j), [progress |-> 10]))
                   ELSE UNCHANGED jobs
              /\ hist' = [hist EXCEPT ![j].execOk = TRUE]
              /\ UNCHANGED <<thrown, callbacks, response>>
         ELSE /\ TrimFailed(j, "transcode failed")
              /\ UNCHANGED hist
  /\ UNCHANGED <<task, workDir, todo, partial, execRuns, saved>>

\* server.js:1322-1326 / 498-502  await trimVideo(...), i.e. execAsync at
\* ffmpeg.js:450; then saveVideo is called
TrimExec(j) ==
  /\ task[j].kind = "trim" /\ pc[j] = "exec"
  /\ \E out \in Outcomes :
       IF out = "ok"
         THEN /\ pc' = [pc EXCEPT ![j] = "save"]
              /\ IF task[j].async
                   THEN jobs' = MapSet(jobs, j,
                                  Spread(JobsGet(j), [progress |-> 70]))
                   ELSE UNCHANGED jobs
              /\ hist' = [hist EXCEPT ![j].execOk = TRUE]
              /\ UNCHANGED <<thrown, callbacks, response>>
         ELSE /\ TrimFailed(j, "transcode failed")
              /\ UNCHANGED hist
  /\ UNCHANGED <<task, workDir, todo, partial, execRuns, saved>>

\* server.js:1326-1349 (async): await saveVideo, jobs.set completed, post the
\* callback.  server.js:502-518 (sync): await saveVideo, res.json, then the
\* finally block calls fs.rm.
TrimSave(j) ==
  /\ task[j].kind = "trim" /\ pc[j] = "save"
  /\ \E out \in Outcomes :
       IF out = "ok"
         THEN /\ saved' = [saved EXCEPT ![j] = TRUE]
              /\ IF task[j].async
                   THEN /\ jobs' = MapSet(jobs, j,
                                     [status |-> "completed", progress |-> 100,
                                      result |-> ResultOf(j),
                                      completedAt |-> 0])
                        /\ callbacks' = [callbacks EXCEPT ![j] =
                                           Append(@, Attempt("completed"))]
                        /\ pc' = [pc EXCEPT ![j] = "cbCompleted"]
                        /\ UNCHANGED response
                   ELSE /\ response' = [response EXCEPT ![j] = "ok"]
                        /\ pc' = [pc EXCEPT ![j] = "rmFinally"]
                        /\ UNCHANGED <<jobs, callbacks>>
              /\ UNCHANGED thrown
         ELSE /\ TrimFailed(j, "save failed")
              /\ UNCHANGED saved
  /\ UNCHANGED <<task, workDir, todo, partial, execRuns, hist>>

\* server.js:1342  await axios.post(callbackUrl, { status: 'completed' })
\* inside the try block: a rejection enters the catch of line 1351.
TrimCbCompleted(j) ==
  /\ task[j].kind = "trim" /\ pc[j] = "cbCompleted"
  /\ \E out \in Outcomes :
       IF out = "ok"
         THEN /\ pc' = [pc EXCEPT ![j] = "rmFinally"]
              /\ UNCHANGED <<jobs, callbacks, thrown, response>>
         ELSE TrimFailed(j, "callback failed")
  /\ UNCHANGED <<task, workDir, todo, partial, execRuns, saved, hist>>

\* server.js:1360-1370  the failure callback in its own try / catch; the
\* finally block follows
TrimCbFailed(j) ==
  /\ task[j].kind = "trim" /\ pc[j] = "cbFailed"
  /\ \E out \in Outcomes : pc' = [pc EXCEPT ![j] = "rmFinally"]
  /\ UNCHANGED <<jobs, task, workDir, todo, partial, execRuns, saved,
                 thrown, callbacks, response, hist>>

\* server.js:1372-1374 (async) and 517-528 (sync):
\* finally { await fs.rm(workDir, ...).catch(() => {}) }; the sync handler
\* then answers 500 if an error is travelling.
TrimRmFinally(j) ==
  /\ task[j].kind = "trim" /\ pc[j] = "rmFinally"
  /\ \E out \in Outcomes : RmWorkDir(j, out)
  /\ pc' = [pc EXCEPT ![j] = "done"]
  /\ IF ~task[j].async /\ thrown[j] # "none"
       THEN response' = [response EXCEPT ![j] = "error500"]
       ELSE UNCHANGED response
  /\ thrown' = [thrown EXCEPT ![j] = "none"]
  /\ UNCHANGED <<jobs, task, todo, execRuns, saved, callbacks>>

\* ----------------------------------------------------------- timeline
\* Clip durations of localFiles: `duration || 8` (ffmpeg.js:52) is never 0.
\* The values include clips shorter than a transition, a duration that is
\* not a multiple of 10 ms and one that is not a whole millisecond (ffprobe
\* prints microseconds).
Durations == {Ms(500), Ms(1004), Ms(5000), Ms(5000) + 6, Ms(8000)}

\* transition.duration as passed to buildXfadeCommand
Transitions == {0, Ms(1000), Ms(3000)}

FileLists == UNION {[1..n -> Durations] : n \in 2..MaxFiles}

\* files.reduce((sum, f) => sum + f.duration, 0)
RECURSIVE SumDurations(_)
SumDurations(f) ==
  IF f = <<>> THEN 0 ELSE f[1] + SumDurations(Tail(f))

\* RunningLoop with the overlap added instead of subtracted
RECURSIVE RunningLoopSignSlip(_, _, _, _, _)
RunningLoopSignSlip(f, t, i, runningDuration, offs) ==
  IF i >= Len(f) - 1 THEN offs
  ELSE LET running == runningDuration + f[i + 1]
           offset == Max(0, running + t * (i + 1))
       IN RunningLoopSignSlip(f, t, i + 1, running, Append(offs, offset))

\* ffmpeg.js:172-179: the loop over i (0-based) with runningDuration and the
\* offsets pushed so far; files[i] of the source is f[i + 1].
RECURSIVE RunningLoop(_, _, _, _, _)
RunningLoop(f, t, i, runningDuration, offs) ==
  IF i >= Len(f) - 1 THEN offs
  ELSE LET running == runningDuration + f[i + 1]
           offset == Max(0, running - t * (i + 1))
       IN RunningLoop(f, t, i + 1, running, Append(offs, offset))

RunningOffsets(f, t) == RunningLoop(f, t, 0, 0, <<0>>)

\* CumulativeLoop without the clamp at 0
RECURSIVE CumulativeLoopUnclamped(_, _, _, _, _)
CumulativeLoopUnclamped(f, t, i, accumulatedOutputDuration, offs) ==
  IF i >= Len(f) - 1 THEN offs
  ELSE LET offset == accumulatedOutputDuration - t
       IN CumulativeLoopUnclamped(f, t, i + 1, offset + f[i + 2],
                                  Append(offs, offset))

\* part_003:425-438: the loop over i with accumulatedOutputDuration
RECURSIVE CumulativeLoop(_, _, _, _, _)
CumulativeLoop(f, t, i, accumulatedOutputDuration, offs) ==
  IF i >= Len(f) - 1 THEN offs
  ELSE LET offset == Max(0, accumulatedOutputDuration - t)
       IN CumulativeLoop(f, t, i + 1, offset + f[i + 2], Append(offs, offset))

CumulativeOffsets(f, t) == CumulativeLoop(f, t, 0, f[1], <<0>>)

\* TimelineTotal without the last clip's duration
TimelineTotalNoLast(f, offs) == offs[Len(f)]

\* ffmpeg.js:182-184: lastVideoStart + lastVideoDuration
TimelineTotal(f, offs) == offs[Len(f)] + f[Len(f)]

\* ffmpeg.js:263-267
CalculateTotalDuration(f, t) ==
  LET totalRaw == SumDurations(f)
      overlapTime == (Len(f) - 1) * t
  IN Round2(totalRaw - overlapTime)

\* transition.duration of a request body: absent, or a number; Direct
\* stands for a call of the exported functions that is not made by the
\* handler
Direct == [via |-> "call", given |-> FALSE, duration |-> 0]
Requested ==
  {[via |-> "request", given |-> FALSE, duration |-> 0]} \cup
  {[via |-> "request", given |-> TRUE, duration |-> d] : d \in Transitions}

\* server.js:153-156  duration: transition?.duration || 1
TransitionConfig(r) ==
  IF r.given /\ r.duration # 0 THEN r.duration ELSE Ms(DefaultTransitionMs)

AnyVideoHasAudio(h) == \E i \in DOMAIN h : h[i]

\* ffmpeg.js:28-62  allVideosHaveAudio, includeAudio
AllVideosHaveAudio(h) == \A i \in DOMAIN h : h[i]

\* XfadeChain with every node reading the first clip, not the node before
XfadeChainFromFirst(f, t, offs) ==
  [k \in 1..(Len(f) - 1) |->
     LET i == k - 1
     IN  [inputA |-> <<"v", 0>>,
          inputB |-> <<"v", i + 1>>,
          duration |-> t,
          offset |-> offs[i + 2],
          output |-> IF i = Len(f) - 2 THEN <<"vout", 0>> ELSE <<"xf", i>>]]

\* ffmpeg.js:187-195  the crossfade chain: node k joins [v0] or the previous
\* node with clip k at videoOffsets[k]; labels are <<name, index>>
XfadeChain(f, t, offs) ==
  [k \in 1..(Len(f) - 1) |->
     LET i == k - 1
     IN  [inputA |-> IF i = 0 THEN <<"v", 0>> ELSE <<"xf", i - 1>>,
          inputB |-> <<"v", i + 1>>,
          duration |-> t,
          offset |-> offs[i + 2],
          output |-> IF i = Len(f) - 2 THEN <<"vout", 0>> ELSE <<"xf", i>>]]

\* AudioFilters with no adelay on any clip
AudioFiltersNoDelay(f, t, offs, total) ==
  [k \in 1..Len(f) |->
     LET i == k - 1
     IN  [input |-> i,
          atrim |-> f[k],
          fadeOut |-> IF i < Len(f) - 1 THEN <<f[k] - t, t>> ELSE <<>>,
          fadeIn |-> IF i > 0 THEN <<0, t>> ELSE <<>>,
          adelay |-> <<>>,
          apad |-> total,
          label |-> <<"a", i>>]]

\* ffmpeg.js:207-241  the filter chain of the audio of each clip; an absent
\* filter is <<>>.  adelay is in whole milliseconds, the other times are in
\* the unit of the model.
AudioFilters(f, t, offs, total) ==
  [k \in 1..Len(f) |->
     LET i == k - 1
         delayMs == RoundMs(offs[k])
     IN  [input |-> i,
          atrim |-> f[k],
          fadeOut |-> IF i < Len(f) - 1 THEN <<f[k] - t, t>> ELSE <<>>,
          fadeIn |-> IF i > 0 THEN <<0, t>> ELSE <<>>,
          adelay |-> IF delayMs > 0 THEN <<delayMs>> ELSE <<>>,
          apad |-> total,
          label |-> <<"a", i>>]]

NoCommand == [filters |-> <<>>, audio |-> <<>>, maps |-> <<>>]

\* ffmpeg.js:186-254  the command: the crossfade chain, and with includeAudio
\* the audio chains, their mix and the mapping of [aout]
FfmpegCommand(f, t, offs, total, includeAudio) ==
  [filters |-> XfadeChain(f, t, offs),
   audio |-> IF includeAudio THEN AudioFilters(f, t, offs, total) ELSE <<>>,
   maps |-> IF includeAudio THEN <<"vout", "aout">> ELSE <<"vout">>]

TimelineIdle ==
  /\ files = <<>> /\ transitionDuration = 0 /\ videoOffsets = <<>>
  /\ totalDuration = 0 /\ reported = 0 /\ formula = "none" /\ tl = "off"
  /\ requested = Direct /\ hasAudio = <<>> /\ command = NoCommand

\* A request whose transition is still to be defaulted, or a call with the
\* transition duration as argument
TimelineInit ==
  /\ files \in FileLists
  /\ hasAudio \in [1..Len(files) -> BOOLEAN]
  /\ \/ /\ tl = "request"
        /\ requested \in Requested
        /\ transitionDuration = 0
     \/ /\ tl = "input"
        /\ requested = Direct
        /\ transitionDuration \in Transitions
  /\ videoOffsets = <<>>
  /\ totalDuration = 0
  /\ reported = 0
  /\ formula = "none"
  /\ command = NoCommand

\* server.js:153-156  transitionConfig, passed on to assembleVideos
TransitionDefaults ==
  /\ tl = "request"
  /\ transitionDuration' = TransitionConfig(requested)
  /\ tl' = "input"
  /\ UNCHANGED <<files, videoOffsets, totalDuration, reported, formula,
                 requested, hasAudio, command>>

\* buildXfadeCommand of lib/ffmpeg.js (ffmpeg.js:157-184), called at
\* ffmpeg.js:70
BuildXfadeCommand ==
  /\ tl = "input"
  /\ videoOffsets' = RunningOffsets(files, transitionDuration)
  /\ totalDuration' = TimelineTotal(files, videoOffsets')
  /\ command' = FfmpegCommand(files, transitionDuration, videoOffsets',
                             totalDuration', AllVideosHaveAudio(hasAudio))
  /\ formula' = "running"
  /\ tl' = "built"
  /\ UNCHANGED <<files, transitionDuration, reported, requested, hasAudio>>

\* buildXfadeCommand of the later revision (part_003:401-443)
BuildXfadeCommandCumulative ==
  /\ tl = "input"
  /\ videoOffsets' = CumulativeOffsets(files, transitionDuration)
  /\ totalDuration' = TimelineTotal(files, videoOffsets')
  /\ command' = FfmpegCommand(files, transitionDuration, videoOffsets',
                             totalDuration', AllVideosHaveAudio(hasAudio))
  /\ formula' = "cumulative"
  /\ tl' = "built"
  /\ UNCHANGED <<files, transitionDuration, reported, requested, hasAudio>>

\* ffmpeg.js:86  const totalDuration = calculateTotalDuration(localFiles, ...)
\* after the transcode; it becomes result.duration (ffmpeg.js:95)
CalculateTotal ==
  /\ tl = "built"
  /\ reported' = CalculateTotalDuration(files, transitionDuration)
  /\ tl' = "reported"
  /\ UNCHANGED <<files, transitionDuration, videoOffsets, totalDuration,
                 formula, requested, hasAudio, command>>

\* ---------------------------------------- names of directories and files
NoName == <<>>

NamingInit ==
  /\ msNow = 0
  /\ dirName = [j \in JobIds |-> NoName]
  /\ outName = [j \in JobIds |-> NoName]
  /\ dirs = {}
  /\ outFiles = <<>>

\* Math.random().toString(36).slice(2, 8): the suffixes of different jobs are
\* taken to differ, as their uuids are
Suffix(j) == j

\* A millisecond passes
TickMs ==
  /\ msNow < MaxMs
  /\ msNow' = msNow + 1
  /\ UNCHANGED <<dirName, outName, dirs, outFiles>>

\* ffmpeg.js:18-20, server.js:490-491, 1311-1314
\* workDir = `/tmp/ffmpeg-job-${Date.now()}-${random}`; fs.mkdir(workDir)
MakeWorkDir(j) ==
  /\ dirName[j] = NoName
  /\ LET name == <<"/tmp/ffmpeg-job", msNow, Suffix(j)>>
     IN  /\ dirName' = [dirName EXCEPT ![j] = name]
         /\ dirs' = dirs \cup {name}
  /\ UNCHANGED <<msNow, outName, outFiles>>

\* saveVideo(outputPath, fileName) puts the file into the output directory
\* under the name it is given, replacing a file of that name
SaveVideo(name, j) == MapSet(outFiles, name, j)

\* ffmpeg.js:82-83  fileName = `assembled-${Date.now()}.mp4`, and
\* server.js:501-502, 1325-1326  fileName = `trimmed-${Date.now()}.mp4`;
\* then saveVideo(outputPath, fileName)
SaveOutput(j, prefix) ==
  /\ dirName[j] \in dirs
  /\ outName[j] = NoName
  /\ LET fileName == <<prefix, msNow>>
     IN  /\ outName' = [outName EXCEPT ![j] = fileName]
         /\ outFiles' = SaveVideo(fileName, j)
  /\ UNCHANGED <<msNow, dirName, dirs>>

\* ffmpeg.js:90, 102, server.js:517, 1373  fs.rm(workDir, { recursive: true })
RemoveWorkDir(j) ==
  /\ dirName[j] \in dirs
  /\ dirs' = dirs \ {dirName[j]}
  /\ UNCHANGED <<msNow, dirName, outName, outFiles>>

\* -------------------------------------------------- GET /api/job/:jobId
NoReply == [code |-> 0]

\* Ids a caller may ask for: the ids of the requests and one that was never
\* handed out
QueryIds == 1..(MaxLiveJobs + 1)

GetJobNoCheck(q) ==
  /\ reply' = [code |-> 200, id |-> q,
                body |-> Spread([jobId |-> q], JobsGet(q))]
  /\ UNCHANGED jobVars

\* server.js:1160-1175
GetJob(q) ==
  /\ IF q \notin DOMAIN jobs
       THEN reply' = [code |-> 404, id |-> q,
                      body |-> [error |-> "Job not found"]]
       ELSE reply' = [code |-> 200, id |-> q,
                      body |-> Spread([jobId |-> q], jobs[q])]
  /\ UNCHANGED jobVars

\* ----------------------------------------------- downloadVideo, stepwise
\* Sizes are in bytes.  maxFileSize (storage.js:30-31) is configured by the
\* environment: one of 1..MaxCap.  A chunk of the response stream holds
\* 1..MaxChunk bytes.
NoDownload ==
  [pc |-> "idle", maxFileSize |-> 0, contentLength |-> 0,
   downloadedBytes |-> 0, written |-> 0, writer |-> "none",
   out |-> "none", result |-> "pending"]

DownloadIdle == dl = NoDownload /\ dlLog = {}

\* The failure condition an outcome of a download is a case of
Condition(out) ==
  CASE out \in {"tooLargeHeader", "tooLargeStream"} -> "sizeExceeded"
    [] out \in {"notFound", "accessDenied", "timeout"} -> out
    [] OTHER -> "other"

\* The promise of downloadVideo rejects with the error of outcome `out`,
\* which the caller reports (error.message)
DlReject(d, out) ==
  /\ dl' = [d EXCEPT !.pc = "settled", !.out = out,
                     !.result = DownloadError(out)]
  /\ dlLog' = dlLog \cup {<<Condition(out), DownloadError(out)>>}

\* storage.js:29-43  downloadVideo is called and awaits the response
DownloadVideo(cap) ==
  /\ dl.pc \in {"idle", "settled"}
  /\ dl' = [NoDownload EXCEPT !.pc = "request", !.maxFileSize = cap]
  /\ UNCHANGED dlLog

\* storage.js:84-98  axios rejects: timeout (ECONNABORTED), 404, 403 or any
\* other failure of the request
DlRequestFails ==
  /\ dl.pc = "request"
  /\ \E out \in {"timeout", "notFound", "accessDenied", "network"} :
       DlReject(dl, out)

\* storage.js:46-53: the response arrives; contentLength is 0 for an absent
\* or unparsable header (NaN is falsy).  With an announced length over the
\* cap the function throws before the write stream is created.
DlResponse(contentLength) ==
  /\ dl.pc = "request"
  /\ IF contentLength # 0 /\ contentLength > dl.maxFileSize
       THEN DlReject([dl EXCEPT !.contentLength = contentLength],
                     "tooLargeHeader")
       ELSE /\ dl' = [dl EXCEPT !.pc = "streaming",
                                !.contentLength = contentLength,
                                !.writer = "open"]
            /\ UNCHANGED dlLog

\* DlData without the count of the streamed bytes
DlDataUncounted(n) ==
  /\ dl.pc = "streaming"
  /\ dl.contentLength # 0 => dl.downloadedBytes + n <= dl.contentLength
  /\ dl' = [dl EXCEPT !.downloadedBytes = @ + n, !.written = @ + n]
  /\ UNCHANGED dlLog

\* storage.js:58-66: a chunk of n bytes arrives (at most the announced
\* length in all): it is counted, and past the cap the writer is destroyed
\* and the promise rejected; otherwise the pipe writes it to the file.
DlData(n) ==
  /\ dl.pc = "streaming"
  /\ dl.contentLength # 0 => dl.downloadedBytes + n <= dl.contentLength
  /\ LET downloadedBytes == dl.downloadedBytes + n
     IN  IF downloadedBytes > dl.maxFileSize
           THEN DlReject([dl EXCEPT !.downloadedBytes = downloadedBytes,
                                    !.writer = "destroyed"],
                         "tooLargeStream")
           ELSE /\ dl' = [dl EXCEPT !.downloadedBytes = downloadedBytes,
                                    !.written = @ + n]
                /\ UNCHANGED dlLog

\* storage.js:68-70: the stream ended with the announced length, the pipe
\* ended the writer: 'finish' resolves the promise
DlFinish ==
  /\ dl.pc = "streaming"
  /\ dl.contentLength # 0 => dl.downloadedBytes = dl.contentLength
  /\ dl' = [dl EXCEPT !.pc = "settled", !.writer = "finished",
                      !.out = "ok", !.result = "resolved"]
  /\ UNCHANGED dlLog

\* storage.js:72-76: the writer fails; the partial file is unlinked
DlWriterError ==
  /\ dl.pc = "streaming"
  /\ DlReject([dl EXCEPT !.writer = "destroyed", !.written = 0],
              "writeError")

\* storage.js:78-81: the response stream fails (the connection is cut)
DlStreamError ==
  /\ dl.pc = "streaming"
  /\ DlReject([dl EXCEPT !.writer = "destroyed"], "streamError")

\* ------------------------ assembleVideos, the loop over the clips, stepwise
\* videos[i].duration of the request (0: absent) and the durations ffprobe
\* may print
GivenDurations == {0, Ms(5000)}
ProbedDurations == {Ms(1004)}

NoProbe ==
  [pc |-> "idle", videos |-> <<>>, i |-> 0, duration |-> 0,
   localFiles |-> <<>>, allVideosHaveAudio |-> TRUE, probed |-> <<>>,
   durationProbe |-> "none", error |-> "none"]

\* ffmpeg.js:16-36  assembleVideos is called with the clips of the request
\* and starts the download of the first one
AssembleVideos(videos) ==
  /\ probe.pc = "idle"
  /\ probe' = [NoProbe EXCEPT !.pc = "download", !.videos = videos]

\* ffmpeg.js:36-42  await downloadVideo: a rejection leaves the loop for the
\* catch block; otherwise the duration of the request is taken and, when
\* there is none, getVideoDuration is awaited
PrDownload ==
  /\ probe.pc = "download"
  /\ \E out \in ClipOutcomes :
       IF out # "ok"
         THEN probe' = [probe EXCEPT !.pc = "failed",
                                     !.error = DownloadError(out)]
         ELSE LET duration == probe.videos[probe.i + 1]
              IN  probe' = [probe EXCEPT
                    !.duration = duration,
                    !.durationProbe = "given",
                    !.pc = IF duration = 0 THEN "duration" ELSE "audio"]

\* PrDuration with a failed probe rejecting
PrDurationRejects ==
  /\ probe.pc = "duration"
  /\ \/ \E d \in ProbedDurations :
          probe' = [probe EXCEPT !.duration = d, !.durationProbe = "ok",
                                 !.pc = "audio"]
     \/ probe' = [probe EXCEPT !.pc = "failed", !.durationProbe = "fail",
                               !.error = "ffprobe failed"]

\* ffmpeg.js:112-122  getVideoDuration: the number ffprobe printed, or 8
\* when the output is no number (parseFloat(...) || 8), or 8 when ffprobe
\* failed (catch)
PrDuration ==
  /\ probe.pc = "duration"
  /\ \/ \E d \in ProbedDurations :
          probe' = [probe EXCEPT !.duration = d, !.durationProbe = "ok",
                                 !.pc = "audio"]
     \/ \E r \in {"nan", "fail"} :
          probe' = [probe EXCEPT !.duration = Ms(DefaultDurationMs),
                                 !.durationProbe = r, !.pc = "audio"]

\* ffmpeg.js:45-57, 129-139  hasAudioStream: ffprobe lists an audio stream,
\* lists none, or fails (catch: false); the clip is pushed to localFiles
\* with `duration || 8`, and after the last clip the command is built and
\* the transcode started (ffmpeg.js:62-77)
PrAudio ==
  /\ probe.pc = "audio"
  /\ \E r \in {"audio", "none", "fail"} :
       LET videoHasAudio == r = "audio"
           i == probe.i + 1
       IN  probe' = [probe EXCEPT
             !.allVideosHaveAudio = IF videoHasAudio THEN @ ELSE FALSE,
             !.localFiles =
                Append(@, [duration |-> IF probe.duration = 0
                                          THEN Ms(DefaultDurationMs)
                                          ELSE probe.duration,
                           hasAudio |-> videoHasAudio]),
             !.probed = Append(@, [duration |-> probe.durationProbe,
                                   audio |-> r]),
             !.i = i,
             !.pc = IF i < Len(probe.videos) THEN "download" ELSE "exec"]

\* ------------------------------------------------ silencesToSegments
NoAutoEdit == [pc |-> "idle"]

\* server.js:765-781  padBefore / padAfter of a strategy; an unknown or
\* absent strategy is `normal`
Strategies == {"aggressive", "light", "normal", "other"}
Padding(strategy) ==
  CASE strategy = "aggressive" -> [padBefore |-> Ms(50), padAfter |-> Ms(50)]
    [] strategy = "light" -> [padBefore |-> Ms(200), padAfter |-> Ms(300)]
    [] OTHER -> [padBefore |-> Ms(100), padAfter |-> Ms(150)]

\* server.js:785-798  the loop over the silences from the k-th on, with
\* currentStart and the segments pushed so far; the result is the pair of
\* both after the last silence
RECURSIVE SilenceLoop(_, _, _, _, _)
SilenceLoop(silences, k, currentStart, segments, pad) ==
  IF k > Len(silences) THEN <<currentStart, segments>>
  ELSE LET silence == silences[k]
           segmentEnd == Max(0, silence.start + pad.padAfter)
           pushed == IF segmentEnd > currentStart + Ms(100)
                       THEN Append(segments, [start |-> currentStart,
                                              end |-> segmentEnd])
                       ELSE segments
       IN  SilenceLoop(silences, k + 1,
                       Max(segmentEnd, silence.end - pad.padBefore),
                       pushed, pad)

\* server.js:759-809  silencesToSegments; totalDuration of the source is
\* originalDuration here, the name of the caller (server.js:698)
SilencesToSegments(silences, originalDuration, strategy) ==
  IF silences = <<>> THEN <<[start |-> 0, end |-> originalDuration]>>
  ELSE LET r == SilenceLoop(silences, 1, 0, <<>>, Padding(strategy))
           currentStart == r[1]
           segments == r[2]
       IN  IF currentStart < originalDuration - Ms(100)
             THEN Append(segments, [start |-> currentStart,
                                    end |-> originalDuration])
             ELSE segments

\* Times of the auto-edit model: multiples of 50 ms up to MaxTicks of them
Tick(k) == Ms(50) * k

\* The silences a detection may report in a file of the given duration:
\* each with 0 <= start < end <= the duration, in the order of their start
Silence(originalDuration) ==
  {[start |-> Tick(a), end |-> Tick(b)] :
     <<a, b>> \in {p \in (0..MaxTicks) \X (0..MaxTicks) :
                     p[1] < p[2] /\ Tick(p[2]) <= originalDuration}}
SilenceLists(originalDuration) ==
  {s \in UNION {[1..n -> Silence(originalDuration)] : n \in 0..MaxSilences} :
     \A k \in 1..(Len(s) - 1) : s[k].start <= s[k + 1].start}

\* A detection has reported its silences and the duration of the file
AutoEditInit ==
  \E k \in 1..MaxTicks, strategy \in Strategies :
    \E silences \in SilenceLists(Tick(k)) :
      autoEdit = [pc |-> "detected", silences |-> silences,
                  totalDuration |-> Tick(k), strategy |-> strategy,
                  segmentsToKeep |-> <<>>]

\* server.js:698  segmentsToKeep = silencesToSegments(silenceResult.silences,
\* silenceResult.originalDuration, strategy)
ConvertSilences ==
  /\ autoEdit.pc = "detected"
  /\ autoEdit' = [autoEdit EXCEPT
       !.segmentsToKeep = SilencesToSegments(autoEdit.silences,
                                             autoEdit.totalDuration,
                                             autoEdit.strategy),
       !.pc = "segments"]

\* ------------------------------------------------------------------ Spec
Init ==
  /\ JobInit /\ TimelineIdle /\ NamingInit /\ reply = NoReply
  /\ DownloadIdle /\ probe = NoProbe /\ autoEdit = NoAutoEdit

\* server.js:1807  job.completedAt || job.failedAt || job.createdAt, as the
\* name of the field that is taken; "none" when the record has none of them
\* (new Date(undefined).getTime() is NaN)
JobTimeField(job) ==
  IF "completedAt" \in DOMAIN job THEN "completedAt"
  ELSE IF "failedAt" \in DOMAIN job THEN "failedAt"
  ELSE IF "createdAt" \in DOMAIN job THEN "createdAt"
  ELSE "none"

ExpiredAtOrBefore(job) ==
  LET f == JobTimeField(job)
  IN  f # "none" /\ job[f] * SweepIntervalMin >= RetentionMin

\* server.js:1805-1808  jobTime < Date.now() - 60 * 60 * 1000, on a record
\* whose timestamps are ages in sweep periods; NaN compares false
Expired(job) ==
  LET f == JobTimeField(job)
  IN  f # "none" /\ job[f] * SweepIntervalMin > RetentionMin

\* Ages beyond this one are not told apart: all of them are expired.
MaxAge == RetentionMin \div SweepIntervalMin + 1

\* The record after one more sweep period
Aged(job) ==
  [k \in DOMAIN job |->
     IF k \in Stamps THEN (IF job[k] < MaxAge THEN job[k] + 1 ELSE MaxAge)
     ELSE job[k]]

\* server.js:1804-1813  the job sweep: the interval of the timer elapses and
\* the callback deletes every record whose time is more than an hour old.
SweepJobs ==
  LET aged == [j \in DOMAIN jobs |-> Aged(jobs[j])]
  IN  /\ jobs' = [j \in {k \in DOMAIN jobs : ~Expired(aged[k])} |-> aged[j]]
      /\ UNCHANGED <<task, pc, workDir, todo, partial, execRuns, saved,
                     thrown, callbacks, response, hist>>

\* One step of request j: its handler, or the resumption of its task at the
\* await it is suspended at.
Request(j) ==
  \/ \E async \in BOOLEAN, n \in 2..MaxClips : PostAssemble(j, async, n)
  \/ \E async \in BOOLEAN, start \in Starts, end \in Ends :
       PostTrim(j, async, start, end)
  \/ RejectAssemble(j)
  \/ RejectTrim(j)

\* The steps before the completion or failure of the task is known: file
\* system calls, downloads (axios timeout 120 s and size cap, storage.js:38-64),
\* probes and transcodes (execAsync timeout, ffmpeg.js:76-77, 447-450)
Work(j) ==
  \/ AsmMkdir(j)
  \/ AsmDownload(j)
  \/ AsmProbe(j)
  \/ AsmExec(j)
  \/ AsmSave(j)
  \/ AsmRm(j)
  \/ AsmRmErr(j)
  \/ TrimMkdir(j)
  \/ TrimDownload(j)
  \/ TrimExec(j)
  \/ TrimSave(j)
  \/ TrimRmFinally(j)

\* The answers of the callback endpoint (axios.post, no timeout)
Callback(j) ==
  \/ AsyncCbCompleted(j)
  \/ AsyncCbFailed(j)
  \/ TrimCbCompleted(j)
  \/ TrimCbFailed(j)

Next ==
  /\ UNCHANGED <<tlVars, nameVars, reply, dlVars, probe, autoEdit>>
  /\ \E j \in JobIds : Request(j) \/ Work(j) \/ Callback(j)

Spec == Init /\ [][Next]_vars

\* The pipeline of at most MaxLiveJobs requests under the scheduling of the
\* event loop: a task whose awaited call has settled is resumed, and every
\* awaited call of Work settles (local file system calls and subprocesses
\* end, downloads end or are cut off).  Nothing is assumed of the callback
\* endpoint.
LiveNext ==
  /\ UNCHANGED <<tlVars, nameVars, reply, dlVars, probe, autoEdit>>
  /\ \E j \in 1..MaxLiveJobs : Request(j) \/ Work(j) \/ Callback(j)

LiveFairness ==
  \A j \in 1..MaxLiveJobs :
    WF_vars(/\ UNCHANGED <<tlVars, nameVars, reply, dlVars, probe, autoEdit>>
            /\ Work(j))

LiveSpec == Init /\ [][LiveNext]_vars /\ LiveFairness

\* The registry under the job sweep: at most MaxLiveJobs requests with a
\* callbackUrl, their background tasks, and the timer of the sweep, which
\* fires every ten minutes for as long as the process runs.
RegistryNext ==
  /\ UNCHANGED <<tlVars, nameVars, reply, dlVars, probe, autoEdit>>
  /\ \/ SweepJobs
     \/ \E j \in 1..MaxLiveJobs :
          \/ \E n \in 2..MaxClips : PostAssemble(j, TRUE, n)
          \/ \E start \in Starts, end \in Ends : PostTrim(j, TRUE, start, end)
          \/ Work(j)
          \/ Callback(j)

RegistrySpec ==
  /\ Init /\ [][RegistryNext]_vars
  /\ LiveFairness
  /\ WF_vars(/\ UNCHANGED <<tlVars, nameVars, reply, dlVars, probe, autoEdit>>
             /\ SweepJobs)

\* The registry as the status query sees it: the steps of RegistrySpec, and
\* status queries for any id at any moment.
QueryNext ==
  /\ UNCHANGED <<tlVars, nameVars, dlVars, probe, autoEdit>>
  /\ \/ SweepJobs /\ reply' = NoReply
     \/ \E j \in 1..MaxLiveJobs :
          /\ \/ \E n \in 2..MaxClips : PostAssemble(j, TRUE, n)
             \/ \E start \in Starts, end \in Ends :
                  PostTrim(j, TRUE, start, end)
             \/ Work(j)
             \/ Callback(j)
          /\ reply' = NoReply
     \/ \E q \in QueryIds : GetJob(q)

QuerySpec == Init /\ [][QueryNext]_vars

\* The names the jobs give to their working directories and output files
NamingNext ==
  /\ UNCHANGED <<jobVars, tlVars, reply, dlVars, probe, autoEdit>>
  /\ \/ TickMs
     \/ \E j \in JobIds :
          \/ MakeWorkDir(j)
          \/ \E prefix \in {"assembled", "trimmed"} : SaveOutput(j, prefix)
          \/ RemoveWorkDir(j)

NamingSpec == Init /\ [][NamingNext]_vars

\* The timeline computation on every clip list and transition of the bounds
TimelineStart ==
  /\ JobInit /\ TimelineInit /\ NamingInit /\ reply = NoReply
  /\ DownloadIdle /\ probe = NoProbe /\ autoEdit = NoAutoEdit

TimelineNext ==
  /\ UNCHANGED <<jobVars, nameVars, reply, dlVars, probe, autoEdit>>
  /\ \/ TransitionDefaults
     \/ BuildXfadeCommand
     \/ BuildXfadeCommandCumulative
     \/ CalculateTotal

TimelineSpec == TimelineStart /\ [][TimelineNext]_vars

\* Downloads one after another, with every size cap, announced length and
\* chunking of the bounds
DownloadNext ==
  /\ UNCHANGED <<jobVars, tlVars, nameVars, reply, probe, autoEdit>>
  /\ \/ \E cap \in 1..MaxCap : DownloadVideo(cap)
     \/ DlRequestFails
     \/ \E contentLength \in 0..(MaxCap + 1) : DlResponse(contentLength)
     \/ \E n \in 1..MaxChunk : DlData(n)
     \/ DlFinish
     \/ DlWriterError
     \/ DlStreamError

DownloadSpec == Init /\ [][DownloadNext]_vars

\* The loop of assembleVideos over the clips of one request, with every
\* outcome of the downloads and of the probes
ProbeNext ==
  /\ UNCHANGED <<jobVars, tlVars, nameVars, reply, dlVars, autoEdit>>
  /\ \/ \E n \in 2..MaxClips :
          \E videos \in [1..n -> GivenDurations] : AssembleVideos(videos)
     \/ PrDownload
     \/ PrDuration
     \/ PrAudio

ProbeSpec == Init /\ [][ProbeNext]_vars

\* silencesToSegments on every list of silences of the bounds
AutoEditStart ==
  /\ JobInit /\ TimelineIdle /\ NamingInit /\ reply = NoReply
  /\ DownloadIdle /\ probe = NoProbe /\ AutoEditInit

AutoEditNext ==
  /\ UNCHANGED <<jobVars, tlVars, nameVars, reply, dlVars, probe>>
  /\ ConvertSilences

AutoEditSpec == AutoEditStart /\ [][AutoEditNext]_vars

\* =================================================================== claims
Terminal == {"completed", "failed"}

\* the failure of request j has been reported: stored on the job (and the
\* failure callback posted) or answered with a 500
FailureReported(j) ==
  \/ response[j] = "error500"
  \/ j \in DOMAIN jobs /\ jobs[j].status = "failed"

DownloadErrors == {DownloadError(out) : out \in DownloadOutcomes \ {"ok"}}

Built == tl \in {"built", "reported"}

\* d[0] + ... + d[i] of the source's 0-based clips, i.e. f[1..i+1]
RawUpTo(f, i) == SumDurations(SubSeq(f, 1, i + 1))

MinDuration(f) == CHOOSE d \in {f[k] : k \in DOMAIN f} :
                    \A k \in DOMAIN f : d <= f[k]

\* offsets of the 0-based clips: offset[i] is videoOffsets[i + 1]
OffsetsStartAtZero == videoOffsets[1] = 0
OffsetsNonDecreasing ==
  \A k \in 1..(Len(videoOffsets) - 1) : videoOffsets[k] <= videoOffsets[k + 1]
OffsetsWithinRaw ==
  \A k \in 1..Len(videoOffsets) : videoOffsets[k] <= RawUpTo(files, k - 1)

\* C1: a job whose processing succeeded (its `completed` callback was
\* attempted) keeps status `completed` and its stored result whatever happens
\* to the delivery of that callback.
C1_CompletedSurvivesCallback ==
  \A j \in DOMAIN jobs :
    (callbacks[j] # <<>> /\ callbacks[j][1] = "completed")
      => /\ jobs[j].status = "completed"
         /\ "result" \in DOMAIN jobs[j]
         /\ jobs[j].result = ResultOf(j)

\* C2: the status of a registered job changes only along queued->processing,
\* processing->completed, processing->failed, and no step changes the record
\* of a job that is `completed` or `failed`.
C2_StatusEdgesAndTerminal ==
  [][\A j \in DOMAIN jobs :
       j \in DOMAIN jobs' =>
         /\ jobs[j].status # jobs'[j].status =>
              <<jobs[j].status, jobs'[j].status>> \in
                {<<"queued", "processing">>, <<"processing", "completed">>,
                 <<"processing", "failed">>}
         /\ jobs[j].status \in Terminal => jobs'[j] = jobs[j]]_vars

\* C3: an asynchronous job never has more than one callback attempt, and has
\* exactly one when its task has finished.
C3_ExactlyOneCallback ==
  \A j \in JobIds :
    task[j].async =>
      /\ Len(callbacks[j]) <= 1
      /\ pc[j] = "done" => Len(callbacks[j]) = 1

\* C4 as stated: for every clip list and every t >= 0, clips shorter than t
\* included, offset[0] = 0, the offsets are non-decreasing and offset[i] is
\* at most the raw duration of clips 0..i.
C4_OffsetsOriginal ==
  Built => /\ OffsetsStartAtZero
           /\ OffsetsNonDecreasing
           /\ OffsetsWithinRaw

\* C4 amended: for every clip list and every t >= 0, offset[0] = 0 and
\* offset[i] is at most the raw duration of clips 0..i; the offsets are
\* non-decreasing whenever no clip is shorter than t.
C4_Offsets ==
  Built => /\ OffsetsStartAtZero
           /\ OffsetsWithinRaw
           /\ transitionDuration <= MinDuration(files) => OffsetsNonDecreasing

\* C4 witness: three clips none shorter than a positive t, offsets computed
\* and strictly increasing
C4_Witness ==
  /\ tl = "built" /\ formula = "running" /\ Len(files) = 3
  /\ transitionDuration > 0 /\ transitionDuration <= MinDuration(files)
  /\ files[2] # files[1]
  /\ 0 < videoOffsets[2] /\ videoOffsets[2] < videoOffsets[3]

\* C5: whenever t <= min(durations) the timeline's total duration is
\* sum(durations) - (n-1)*t; three 8 s clips with t = 1 s give offsets 7 s and
\* 14 s and total 22 s; two 5 s clips with t = 1 s give total 9 s.
C5_TotalDuration ==
  Built =>
    /\ transitionDuration <= MinDuration(files) =>
         totalDuration =
           SumDurations(files) - (Len(files) - 1) * transitionDuration
    /\ (files = <<Ms(8000), Ms(8000), Ms(8000)>>
        /\ transitionDuration = Ms(1000)) =>
         /\ videoOffsets = <<0, Ms(7000), Ms(14000)>>
         /\ totalDuration = Ms(22000)
    /\ (files = <<Ms(5000), Ms(5000)>> /\ transitionDuration = Ms(1000)) =>
         totalDuration = Ms(9000)

\* C5 witness: scenario A has been computed by buildXfadeCommand
C5_Witness ==
  /\ tl = "built" /\ formula = "running"
  /\ files = <<Ms(8000), Ms(8000), Ms(8000)>>
  /\ transitionDuration = Ms(1000)
  /\ totalDuration = Ms(22000)

\* C6: the reported duration (calculateTotalDuration) is within 0.1 s of the
\* total duration of the timeline, for all durations and transitions.
C6_ReportedMatchesTimeline ==
  tl = "reported" =>
    /\ reported - totalDuration <= Ms(100)
    /\ totalDuration - reported <= Ms(100)

\* C7: the reported total duration is never negative.
C7_ReportedNonNegative == tl = "reported" => reported >= 0

\* C8: whenever a job is `completed` or `failed`, and whenever a synchronous
\* request has been answered, the request's working directory is gone.
C8_WorkDirGoneAtTerminal ==
  \A j \in JobIds :
    (\/ j \in DOMAIN jobs /\ jobs[j].status \in Terminal
     \/ response[j] \in {"ok", "error500"})
      => workDir[j] # "present"

\* what C9 says of an assembly one of whose downloads was rejected, apart
\* from the partial file: it is on its failure path (no further download, no
\* transcode, no saved output) and ends reported as failed with the
\* download's error
DownloadFailureAborts(j) ==
  /\ pc[j] \in {"rmErr", "cbFailed", "done"}
  /\ todo[j] = 0
  /\ execRuns[j] = 0
  /\ ~saved[j]
  /\ pc[j] \in {"cbFailed", "done"} =>
       /\ FailureReported(j)
       /\ task[j].async => jobs[j].error \in DownloadErrors

C10_SuccessNotOverturned ==
  \A j \in JobIds :
    hist[j].execOk =>
      /\ response[j] # "error500"
      /\ j \in DOMAIN jobs => jobs[j].status # "failed"

\* A request is malformed when its handler rejects it or when its trim
\* bounds are not start < end.
Malformed(j) == task[j].kind = "rejected" \/ task[j].range # "ok"

\* No job record, no working directory, no download, no subprocess and no
\* saved file for request j, which was answered 400.
RejectedUntouched(j) ==
  /\ j \notin DOMAIN jobs
  /\ workDir[j] = "none"
  /\ pc[j] = "done"
  /\ execRuns[j] = 0
  /\ ~saved[j]
  /\ callbacks[j] = <<>>
  /\ response[j] = "error400"

\* C11: a malformed request (videos not an array, fewer than two or too
\* many clips, a clip without a valid URL, trim bounds that are not numbers
\* or with end <= start) is rejected as a validation error before any job
\* is registered, any working directory is made, any download is started
\* or any subprocess is run.
C11_MalformedRejectedFirst ==
  \A j \in JobIds : Malformed(j) => RejectedUntouched(j)

\* Request j was accepted for background processing.
Accepted(j) == task[j].async /\ response[j] = "accepted"

C14_CreatedAtAndProgressKept ==
  \A j \in DOMAIN jobs :
    /\ "createdAt" \in DOMAIN jobs[j]
    /\ "progress" \in DOMAIN jobs[j]
    /\ jobs[j].progress \in 0..100

Statuses == {"queued", "processing", "completed", "failed"}

\* C13: every record of the registry has a status, one of queued,
\* processing, completed and failed, whatever the interleaving of the
\* updates of the background tasks with the job sweep.
C13_StatusAlwaysDefined ==
  \A j \in DOMAIN jobs :
    "status" \in DOMAIN jobs[j] /\ jobs[j].status \in Statuses

\* The record of job j is deleted by this step.
Removed(j) == j \in DOMAIN jobs /\ j \notin DOMAIN jobs'

\* The time the sweep reads from the record is more than the retention
\* window old when the sweep that makes this step runs.
WindowElapsed(job) ==
  LET f == JobTimeField(job)
  IN  f # "none" /\ (job[f] + 1) * SweepIntervalMin > RetentionMin

C16_JobsIsolated ==
  \A i \in JobIds :
    /\ \A j \in JobIds \ {i} :
         /\ dirName[i] # NoName => dirName[i] # dirName[j]
         /\ outName[i] # NoName => outName[i] # outName[j]
    /\ outName[i] # NoName => outFiles[outName[i]] = i

\* The answer of the last status query is what the handler computes from
\* the registry as it is.
Answered == reply # NoReply

\* C19: the status query answers 404 exactly when the id is not in the
\* registry; otherwise it answers with the record as currently stored, its
\* status included.
C19_StatusQuery ==
  Answered =>
    /\ reply.code \in {200, 404}
    /\ reply.code = 404 <=> reply.id \notin DOMAIN jobs
    /\ reply.code = 200 =>
         \A f \in DOMAIN jobs[reply.id] :
           f \in DOMAIN reply.body /\ reply.body[f] = jobs[reply.id][f]

\* A query answered with the status of a finished job
C19_Witness ==
  /\ Answered
  /\ reply.code = 200
  /\ "status" \in DOMAIN reply.body
  /\ reply.body.status = "completed"

\* A query for a job whose record the sweep has removed is answered 404
C19_WitnessGone ==
  /\ Answered
  /\ reply.code = 404
  /\ reply.id \in JobIds /\ task[reply.id].async

\* The request asked for a transition of duration 0.
ZeroRequested == requested.via = "request" /\ requested.given
                 /\ requested.duration = 0

\* C17: when the transition duration is 0 the assembly is a back-to-back
\* concatenation: each clip starts at the sum of the durations of the clips
\* before it, the crossfade windows have length 0, and the total duration
\* is the plain sum of the clip durations.
C17_ZeroTransitionConcatenates ==
  (Built /\ ZeroRequested) =>
    /\ \A k \in 1..Len(files) :
         videoOffsets[k] = SumDurations(SubSeq(files, 1, k - 1))
    /\ \A k \in 1..Len(command.filters) : command.filters[k].duration = 0
    /\ totalDuration = SumDurations(files)

\* C18: audio is mixed into the output only if every clip has an audio
\* stream, and the video offsets, the crossfade chain and the total
\* duration are what they are for the clip durations and the transition
\* alone, the same with or without audio.
C18_AudioOnlyIfAll ==
  Built =>
    LET offs == IF formula = "running"
                  THEN RunningOffsets(files, transitionDuration)
                  ELSE CumulativeOffsets(files, transitionDuration)
        total == TimelineTotal(files, offs)
        with == FfmpegCommand(files, transitionDuration, offs, total, TRUE)
        without == FfmpegCommand(files, transitionDuration, offs, total,
                                 FALSE)
    IN  /\ command.audio # <<>> => \A k \in 1..Len(files) : hasAudio[k]
        /\ "aout" \in {command.maps[k] : k \in DOMAIN command.maps}
             => \A k \in 1..Len(files) : hasAudio[k]
        /\ command \in {with, without}
        /\ with.filters = without.filters
        /\ command.filters = without.filters
        /\ videoOffsets = offs
        /\ totalDuration = total

\* One clip of three has no audio stream: the command has no audio chain and
\* its crossfade chain is there
C18_Witness ==
  /\ Built
  /\ Len(files) = 3
  /\ hasAudio = <<TRUE, FALSE, TRUE>>
  /\ command.audio = <<>>
  /\ Len(command.filters) = 2

\* Duration of the composed output once clip k (1-based) is added
Composed(k) == videoOffsets[k] + files[k]

\* At crossfade step k the window fits into what is composed so far, and
\* adding the clip does not shorten the output.
StepFits(k) ==
  /\ videoOffsets[k] + transitionDuration <= Composed(k - 1)
  /\ Composed(k) >= Composed(k - 1)

NoClipShorterThanTransition ==
  \A k \in 1..Len(files) : files[k] >= transitionDuration

OtherOffsets ==
  IF formula = "running"
    THEN CumulativeOffsets(files, transitionDuration)
    ELSE RunningOffsets(files, transitionDuration)

FormulasAgree ==
  /\ videoOffsets = OtherOffsets
  /\ totalDuration = TimelineTotal(files, OtherOffsets)

AllDurationsEqual == \A k \in 1..Len(files) : files[k] = files[1]

\* C21 as stated: the running-sum formula and the cumulative formula give
\* the same offsets and total duration exactly when all clip durations are
\* equal.
C21_AgreeIffEqualOriginal ==
  Built => (FormulasAgree <=> AllDurationsEqual)

\* C21, amended: the running-sum formula and the cumulative formula give the
\* same offsets and total duration whenever all clip durations are equal or
\* no clip is shorter than the transition; they differ only for a list with
\* a clip shorter than the transition.
C21_AgreeUnlessClamped ==
  (Built /\ (AllDurationsEqual \/ NoClipShorterThanTransition))
    => FormulasAgree

C21_Witness ==
  /\ Built
  /\ formula = "cumulative"
  /\ Len(files) = 3
  /\ ~AllDurationsEqual
  /\ NoClipShorterThanTransition
  /\ transitionDuration > 0
  /\ FormulasAgree

\* The two formulas do differ for some list with a short clip
C21_WitnessDiffer ==
  /\ Built
  /\ ~NoClipShorterThanTransition
  /\ ~FormulasAgree

\* The audio graph was built (every clip has an audio stream)
WithAudio == Built /\ command.audio # <<>>

\* Delay of the audio of clip k in the graph, and where it ends after the
\* delay and after the padding (apad only ever lengthens a stream)
AudioDelay(k) ==
  IF command.audio[k].adelay = <<>> THEN 0
  ELSE Ms(command.audio[k].adelay[1])
AudioEnd(k) == AudioDelay(k) + command.audio[k].atrim
PaddedEnd(k) == Max(AudioEnd(k), command.audio[k].apad)

C23_SweepSparesRunningJobs ==
  [][\A j \in 1..MaxLiveJobs :
       Removed(j) =>
         "status" \in DOMAIN jobs[j] /\ jobs[j].status \in Terminal]_vars

\* C24: the terminal status is stored before the callback is sent, so the
\* answer to a status query made after a callback of the job was sent is
\* 200 with the terminal status that the callback carried.
C24_QueryAgreesWithCallback ==
  (Answered /\ reply.id \in 1..MaxLiveJobs) =>
    \A k \in 1..Len(callbacks[reply.id]) :
      /\ reply.code = 200
      /\ "status" \in DOMAIN reply.body
      /\ reply.body.status = callbacks[reply.id][k]

\* The four failure conditions of a download the specification names, and
\* the error of a download that failed for any other reason of the request
FailureConditions == {"notFound", "accessDenied", "sizeExceeded", "timeout"}
GenericDownloadError == DownloadError("network")

\* C25: not found, access denied, size exceeded and timeout are each
\* reported with an error that no other condition is reported with, and
\* none of them with the generic download error.
C25_DistinctErrors ==
  \A p \in dlLog :
    p[1] \in FailureConditions =>
      /\ p[2] # GenericDownloadError
      /\ \A q \in dlLog : q[1] # p[1] => q[2] # p[2]

\* C25 witness: downloads have failed on each of the four conditions, on the
\* size cap in both ways, and on another failure of the request
C25_Witness ==
  /\ FailureConditions \subseteq {p[1] : p \in dlLog}
  /\ Cardinality({p \in dlLog : p[1] = "sizeExceeded"}) = 2
  /\ \E p \in dlLog : p[2] = GenericDownloadError

\* C26: a download never resolves with more bytes than the cap: it has
\* failed, with nothing written, when the announced content-length exceeds
\* the cap, and it fails on the chunk with which the count of streamed
\* bytes exceeds the cap.
C26_SizeCap ==
  /\ dl.result = "resolved" =>
       /\ dl.downloadedBytes <= dl.maxFileSize
       /\ dl.written <= dl.maxFileSize
  /\ dl.contentLength > dl.maxFileSize =>
       /\ dl.pc = "settled"
       /\ dl.result = DownloadError("tooLargeHeader")
       /\ dl.writer = "none" /\ dl.downloadedBytes = 0
  /\ dl.downloadedBytes > dl.maxFileSize =>
       /\ dl.pc = "settled"
       /\ dl.result = DownloadError("tooLargeStream")
       /\ dl.writer = "destroyed"
       /\ dl.written <= dl.maxFileSize

\* C26 witness: a response without content-length was streamed past the cap
\* in several chunks and the download failed
C26_Witness ==
  /\ dl.out = "tooLargeStream"
  /\ dl.contentLength = 0
  /\ dl.written > 0
  /\ dl.downloadedBytes > dl.maxFileSize

\* A download that fills the cap exactly resolves
C26_WitnessFull ==
  /\ dl.result = "resolved"
  /\ dl.downloadedBytes = dl.maxFileSize
  /\ dl.maxFileSize = MaxCap

\* C27: a failed probe of a clip's duration or audio does not fail the
\* request: the clip gets the default duration of 8 s, or counts as having
\* no audio (and the output gets no audio), every downloaded clip enters
\* localFiles, only a failed download ends the loop, and after the last
\* clip the transcode is started with all clips.
C27_ProbeDegraded ==
  /\ \A k \in 1..Len(probe.localFiles) :
       /\ probe.probed[k].duration \in {"nan", "fail"} =>
            probe.localFiles[k].duration = Ms(DefaultDurationMs)
       /\ probe.probed[k].audio = "fail" =>
            ~probe.localFiles[k].hasAudio /\ ~probe.allVideosHaveAudio
       /\ probe.localFiles[k].duration > 0
  /\ probe.pc = "failed" => probe.error \in DownloadErrors
  /\ probe.pc \in {"download", "exec"} => Len(probe.localFiles) = probe.i
  /\ probe.pc = "exec" => Len(probe.localFiles) = Len(probe.videos)

\* C27 witness: the duration probe of the first clip and the audio probe of
\* the second failed, and the transcode was started with both clips
C27_Witness ==
  /\ probe.pc = "exec"
  /\ Len(probe.localFiles) = 2
  /\ probe.probed[1].duration = "fail"
  /\ probe.probed[2].audio = "fail"
  /\ probe.localFiles[1].duration = Ms(DefaultDurationMs)
  /\ ~probe.allVideosHaveAudio

\* The crossfade nodes of the command, the labels they read and write
Nodes == 1..Len(command.filters)
Consumers(label) ==
  {<<k, side>> \in Nodes \X {"A", "B"} :
     label = IF side = "A" THEN command.filters[k].inputA
             ELSE command.filters[k].inputB}
Producers(label) == {k \in Nodes : command.filters[k].output = label}

\* C28: for n clips the graph has n-1 crossfade nodes; node i (0-based)
\* reads the output of node i-1 (clip 0 for the first node) and clip i+1
\* at offset[i+1] with the transition duration; every intermediate label is
\* written by one node and read by one; every clip is read once; the last
\* node writes the video output, which is mapped.
C28_XfadeChainWellFormed ==
  Built =>
    /\ Len(command.filters) = Len(files) - 1
    /\ \A k \in Nodes :
         LET node == command.filters[k]
             i == k - 1
         IN  /\ node.inputA = IF i = 0 THEN <<"v", 0>>
                              ELSE command.filters[k - 1].output
             /\ node.inputB = <<"v", i + 1>>
             /\ node.offset = videoOffsets[i + 2]
             /\ node.duration = transitionDuration
             /\ k < Len(command.filters) =>
                  /\ node.output[1] = "xf"
                  /\ Cardinality(Producers(node.output)) = 1
                  /\ Cardinality(Consumers(node.output)) = 1
    /\ \A i \in 0..(Len(files) - 1) :
         Cardinality(Consumers(<<"v", i>>)) = 1
    /\ command.filters[Len(command.filters)].output = <<"vout", 0>>
    /\ Cardinality(Producers(<<"vout", 0>>)) = 1
    /\ Consumers(<<"vout", 0>>) = {}
    /\ command.maps[1] = "vout"

\* C28 witness: a chain of at least two nodes, the second reading the
\* label the first wrote, at increasing offsets
C28_Witness ==
  /\ Built
  /\ Len(command.filters) >= 2
  /\ command.filters[2].inputA = <<"xf", 0>>
  /\ command.filters[1].output = <<"xf", 0>>
  /\ command.filters[1].offset < command.filters[2].offset

\* The record of job j has a progress value
HasProgress(m, j) == j \in DOMAIN m /\ "progress" \in DOMAIN m[j]

\* C29: the progress value of a job never decreases from one step to the
\* next, and a job whose status is `completed` has progress 100.
C29_ProgressMonotone ==
  /\ [][\A j \in 1..MaxLiveJobs :
          (HasProgress(jobs, j) /\ HasProgress(jobs', j)) =>
            jobs'[j].progress >= jobs[j].progress]_vars
  /\ [](\A j \in DOMAIN jobs :
          ("status" \in DOMAIN jobs[j] /\ jobs[j].status = "completed") =>
            HasProgress(jobs, j) /\ jobs[j].progress = 100)

\* C29 witness: a trim job went through every progress update and is
\* completed
C29_Witness ==
  \E j \in DOMAIN jobs :
    /\ task[j].kind = "trim"
    /\ "status" \in DOMAIN jobs[j] /\ jobs[j].status = "completed"
    /\ jobs[j].progress = 100
    /\ hist[j].execOk

\* The segments silencesToSegments returned
Kept == autoEdit.segmentsToKeep

SegmentsOrdered ==
  \A k \in 2..Len(Kept) :
    Kept[k - 1].start < Kept[k].start /\ Kept[k - 1].end <= Kept[k].start
SegmentsNonEmpty == \A k \in 1..Len(Kept) : Kept[k].start < Kept[k].end
SegmentsInside ==
  \A k \in 1..Len(Kept) :
    0 <= Kept[k].start /\ Kept[k].end <= autoEdit.totalDuration

\* C30: for silences ordered by start time within [0, totalDuration] and
\* any strategy, the segments silencesToSegments returns are in increasing
\* order, pairwise non-overlapping, each with start < end, and inside
\* [0, totalDuration].
C30_KeepSegmentsWellFormed ==
  autoEdit.pc = "segments" =>
    SegmentsOrdered /\ SegmentsNonEmpty /\ SegmentsInside

\* Order, disjointness and non-emptiness of the segments, without their
\* end staying inside the file
C30_OrderedNonEmpty ==
  autoEdit.pc = "segments" => SegmentsOrdered /\ SegmentsNonEmpty
====
